---- MODULE Spec2Model ----
(***************************************************************************)
(* Distributed Bellman-Ford simulation (src/main.py, src/node.py).         *)
(*                                                                         *)
(* main builds one Node per line of the link data, stores every node in a  *)
(* manager dictionary (the registry `network`), normalises each registry   *)
(* entry and then runs Node.send_packets for every node on a pool of       *)
(* MaxWorkers processes.  A worker owns a private copy of its node (the    *)
(* local table `map`), a shared queue and a proxy of the registry.  Every  *)
(* registry read, registry write, queue put and queue get is one call to   *)
(* the manager process and therefore one atomic step; the steps of         *)
(* different workers interleave freely.                                    *)
(***************************************************************************)
EXTENDS Integers, Sequences, FiniteSets, TLC

VARIABLES
    links,              \* result of parse_links: the lines of the link file
    network,            \* the registry: node name -> published routing table
    map,                \* node name -> the table of the node object a worker (or main) holds
    queue,              \* node name -> FIFO of packets
    main_pc,            \* position of main: index of the next registry item to normalise, then submit, join, end
    pc,                 \* node name -> position of the node's task
    depth,              \* node name -> number of update_table frames on the task's stack
    neighbour_table,    \* node name -> content of the packet under relaxation
    di,                 \* node name -> index of the destination of the outer loop
    ni,                 \* node name -> index of the via node of the inner loop
    current_distance,   \* node name -> value read at the top of the outer loop
    new_distance,       \* node name -> the sum of the pair whose test of line 187 has passed
    edited,             \* node name -> the edited flag of the running update_table
    pending             \* node name -> neighbours still to be served by the running send_packets

vars == <<links, network, map, queue, main_pc, pc, depth, neighbour_table, di, ni,
          current_distance, new_distance, edited, pending>>

-----------------------------------------------------------------------------
(* Bounds of the model and program constants.                              *)

\* largest cost of the direct A-C link in the enumerated triangles
MaxCost == 5

\* math.inf (added with saturation, larger than every finite cost)
Inf == 1000000

\* ProcessPoolExecutor(max_workers=4)
MaxWorkers == 4

-----------------------------------------------------------------------------
(* Floats with infinity.                                                   *)

\* the two distances subtracted instead of added
Plus_subtracting(a, b) == IF a = Inf \/ b = Inf THEN Inf ELSE a - b

Plus(a, b) == IF a = Inf \/ b = Inf THEN Inf ELSE a + b

-----------------------------------------------------------------------------
(* HopInfo and HopsMap: an insertion-ordered dictionary destination -> hop, *)
(* kept as the sequence of its items.                                      *)

HopInfo(next_hop, best_distance) ==
    [next_hop |-> next_hop, best_distance |-> best_distance]

Item(dest, hop) == [dest |-> dest, hop |-> hop]

Keys(m) == {m[i].dest : i \in 1..Len(m)}

KeyList(m) == [i \in 1..Len(m) |-> m[i].dest]

Contains(m, k) == \E i \in 1..Len(m) : m[i].dest = k

Get(m, k) == m[CHOOSE i \in 1..Len(m) : m[i].dest = k].hop

\* dict.__setitem__: an existing key keeps its position, a new key is appended
SetItem(m, k, hop) ==
    IF Contains(m, k)
        THEN [i \in 1..Len(m) |-> IF m[i].dest = k THEN Item(k, hop) ELSE m[i]]
        ELSE Append(m, Item(k, hop))

distance_to(m, k) == Get(m, k).best_distance

pass_through(m, k) == Get(m, k).next_hop

-----------------------------------------------------------------------------
(* Node.from_links.                                                        *)

\* the first hop of the list that names the node
_hop_from(name, hops) == hops[CHOOSE i \in 1..Len(hops) :
                                /\ hops[i].next_hop = name
                                /\ \A j \in 1..(i - 1) : hops[j].next_hop # name]

RECURSIVE HopsDict(_, _, _)
HopsDict(hops, i, acc) ==
    IF i > Len(hops) THEN acc
    ELSE HopsDict(hops, i + 1,
                  SetItem(acc, hops[i].next_hop, _hop_from(hops[i].next_hop, hops)))

\* the table of the node built from one line
from_links(line) == HopsDict(line.hops, 1, <<>>)

LineNames(ls) == [i \in 1..Len(ls) |-> ls[i].name]

Names == {links[i].name : i \in 1..Len(links)}

-----------------------------------------------------------------------------
(* Node.neighbours and Node.normalised.                                    *)

\* every node of the registry, self included
neighbours_with_self(self) == LineNames(links)

\* the names of the registry's nodes other than self, in registry order
neighbours(self) == SelectSeq(LineNames(links), LAMBDA n : n # self)

RECURSIVE NormaliseOver(_, _, _)
NormaliseOver(m, ns, i) ==
    IF i > Len(ns) THEN m
    ELSE NormaliseOver(IF Contains(m, ns[i]) THEN m
                       ELSE SetItem(m, ns[i], HopInfo(ns[i], Inf)),
                       ns, i + 1)

\* a normalisation without the membership test of line 91
RECURSIVE OverwriteOver(_, _, _)
OverwriteOver(m, ns, i) ==
    IF i > Len(ns) THEN m
    ELSE OverwriteOver(SetItem(m, ns[i], HopInfo(ns[i], Inf)), ns, i + 1)

normalised_overwriting(self, m) == OverwriteOver(m, neighbours(self), 1)

\* no normalisation at all
normalised_nothing(self, m) == m

normalised(self, m) == NormaliseOver(m, neighbours(self), 1)

-----------------------------------------------------------------------------
(* The link data handed to main.                                           *)

\* parse_links: a line's hop list starts with the node itself at cost 0.0
Line(name, hops) == [name |-> name, hops |-> <<HopInfo(name, 0)>> \o hops]

\* A-B 1, B-C 1, A-C c
Triangle(c) ==
    << Line("A", <<HopInfo("B", 1), HopInfo("C", c)>>),
       Line("B", <<HopInfo("A", 1), HopInfo("C", 1)>>),
       Line("C", <<HopInfo("A", c), HopInfo("B", 1)>>) >>

\* A names a neighbour D that has no line of its own
Dangling ==
    << Line("A", <<HopInfo("B", 1), HopInfo("D", 2)>>),
       Line("B", <<HopInfo("A", 1), HopInfo("C", 1)>>),
       Line("C", <<HopInfo("B", 1)>>) >>

\* two nodes joined by a link of cost 0
ZeroLink ==
    << Line("A", <<HopInfo("B", 0)>>),
       Line("B", <<HopInfo("A", 0)>>) >>

\* two nodes joined by a link of cost 1: the tables hold the shortest-path
\* costs from the start
TwoNodes ==
    << Line("A", <<HopInfo("B", 1)>>),
       Line("B", <<HopInfo("A", 1)>>) >>

Networks == {Triangle(MaxCost), Dangling, ZeroLink, TwoNodes}

\* A-B 1, A-C 1, B-D 1, C-D 1: two paths of cost 2 between A and D and
\* between B and C
Diamond ==
    << Line("A", <<HopInfo("B", 1), HopInfo("C", 1)>>),
       Line("B", <<HopInfo("A", 1), HopInfo("D", 1)>>),
       Line("C", <<HopInfo("A", 1), HopInfo("D", 1)>>),
       Line("D", <<HopInfo("B", 1), HopInfo("C", 1)>>) >>

\* A-B 1, A-C 1, B-D 1, C-D 2: from B, C is reached through A at cost 2 and
\* through D at cost 3
Lopsided ==
    << Line("A", <<HopInfo("B", 1), HopInfo("C", 1)>>),
       Line("B", <<HopInfo("A", 1), HopInfo("D", 1)>>),
       Line("C", <<HopInfo("A", 1), HopInfo("D", 2)>>),
       Line("D", <<HopInfo("B", 1), HopInfo("C", 2)>>) >>

\* the chain A-B-C-D with links of cost 1, the lines in the order C, D, B, A
Chain ==
    << Line("C", <<HopInfo("B", 1), HopInfo("D", 1)>>),
       Line("D", <<HopInfo("C", 1)>>),
       Line("B", <<HopInfo("A", 1), HopInfo("C", 1)>>),
       Line("A", <<HopInfo("B", 1)>>) >>

WideNetworks == {Diamond, Lopsided, Chain}

\* link data over a pool of four names: any non-empty set of lines, every
\* line with a non-empty list of neighbours, which need not have a line
NodePool == <<"A", "B", "C", "D">>

PoolSet == {NodePool[i] : i \in 1..Len(NodePool)}

PoolIndex(n) == CHOOSE i \in 1..Len(NodePool) : NodePool[i] = n

InPoolOrder(S) == SelectSeq(NodePool, LAMBDA n : n \in S)

LinkCost(x, y) == 1 + ((PoolIndex(x) * PoolIndex(y)) % MaxCost)

PoolLine(x, S) ==
    LET ns == InPoolOrder(S) IN
    Line(x, [i \in 1..Len(ns) |-> HopInfo(ns[i], LinkCost(x, ns[i]))])

PoolNetwork(S, nb) ==
    LET xs == InPoolOrder(S) IN [i \in 1..Len(xs) |-> PoolLine(xs[i], nb[xs[i]])]

PoolNetworks ==
    UNION { { PoolNetwork(S, nb) :
                nb \in {f \in [S -> (SUBSET PoolSet) \ {{}}] : \A n \in S : n \notin f[n]} }
            : S \in (SUBSET PoolSet) \ {{}} }

-----------------------------------------------------------------------------
(* Packet.                                                                 *)

\* Node.dummy_packet: the header names the sender, the content is its table
dummy_packet(self) == [header |-> self, content |-> map[self]]

-----------------------------------------------------------------------------
(* main.                                                                   *)

\* nodes = Node.from_links(links); network[node.name] = node for every node
InitFor(ls) ==
    /\ links = ls
    /\ network = [n \in {ls[i].name : i \in 1..Len(ls)} |->
                    from_links(ls[CHOOSE i \in 1..Len(ls) : ls[i].name = n])]
    /\ map = network
    /\ queue = [n \in DOMAIN network |-> <<>>]
    /\ main_pc = 1
    /\ pc = [n \in DOMAIN network |-> "new"]
    /\ depth = [n \in DOMAIN network |-> 0]
    /\ neighbour_table = [n \in DOMAIN network |-> <<>>]
    /\ di = [n \in DOMAIN network |-> 1]
    /\ ni = [n \in DOMAIN network |-> 1]
    /\ current_distance = [n \in DOMAIN network |-> 0]
    /\ new_distance = [n \in DOMAIN network |-> 0]
    /\ edited = [n \in DOMAIN network |-> FALSE]
    /\ pending = [n \in DOMAIN network |-> <<>>]

Init == \E ls \in Networks : InitFor(ls)

workerVars == <<map, queue, pc, depth, neighbour_table, di, ni, current_distance,
                new_distance, edited, pending>>

\* main.py 28-31: network[name] = node.normalised(), one registry item per step
Normalise ==
    /\ main_pc \in 1..Len(links)
    /\ LET name == links[main_pc].name IN
         network' = [network EXCEPT ![name] = normalised(name, network[name])]
    /\ main_pc' = main_pc + 1
    /\ UNCHANGED <<links, workerVars>>

\* main.py 34: executor.map(Node.send_packets, network.values())
Submit ==
    /\ main_pc = Len(links) + 1
    /\ main_pc' = Len(links) + 2
    /\ map' = network
    /\ pc' = [n \in DOMAIN network |-> "submitted"]
    /\ UNCHANGED <<links, network, queue, depth, neighbour_table, di, ni,
                   current_distance, new_distance, edited, pending>>

Returned(n) == pc[n] \in {"done", "error"}

\* leaving the executor's with block joins every task
Join ==
    /\ main_pc = Len(links) + 2
    /\ \A n \in Names : Returned(n)
    /\ main_pc' = Len(links) + 3
    /\ UNCHANGED <<links, network, workerVars>>

-----------------------------------------------------------------------------
(* The pool: tasks are taken in submission order by at most MaxWorkers     *)
(* processes.                                                              *)

Running == {n \in Names : pc[n] \notin {"new", "submitted", "done", "error"}}

FirstSubmitted(self) ==
    \E i \in 1..Len(links) :
        /\ links[i].name = self
        /\ \A j \in 1..(i - 1) : pc[links[j].name] # "submitted"

\* send_packets, lines 147-150: the packet and the list of neighbours
BeginSend(self) ==
    /\ pending' = [pending EXCEPT ![self] = neighbours(self)]
    /\ pc' = [pc EXCEPT ![self] = IF neighbours(self) = <<>> THEN "wait" ELSE "send"]

Start(self) ==
    /\ pc[self] = "submitted"
    /\ FirstSubmitted(self)
    /\ Cardinality(Running) < MaxWorkers
    /\ BeginSend(self)
    /\ UNCHANGED <<links, network, map, queue, main_pc, depth, neighbour_table, di, ni,
                   current_distance, new_distance, edited>>

\* send_packets, lines 150-154: one and_send, then wait_for_packets after the last
Put(self) ==
    /\ pc[self] = "send"
    /\ LET dest == Head(pending[self]) IN
         queue' = [queue EXCEPT ![dest] = Append(@, dummy_packet(self))]
    /\ pending' = [pending EXCEPT ![self] = Tail(@)]
    /\ pc' = [pc EXCEPT ![self] = IF Len(pending[self]) = 1 THEN "wait" ELSE "send"]
    /\ UNCHANGED <<links, network, map, main_pc, depth, neighbour_table, di, ni,
                   current_distance, new_distance, edited>>

\* a wait_for_packets that blocks on the empty queue instead of returning
ReturnEmpty_blocking(self) ==
    /\ pc[self] = "wait"
    /\ queue[self] = <<>>
    /\ FALSE
    /\ UNCHANGED vars

\* wait_for_packets with the queue observed empty: the call returns, either
\* into the update_table that called send_packets or out of the task
ReturnEmpty(self) ==
    /\ pc[self] = "wait"
    /\ queue[self] = <<>>
    /\ IF depth[self] > 0
         THEN /\ depth' = [depth EXCEPT ![self] = @ - 1]
              /\ pc' = pc
         ELSE /\ depth' = depth
              /\ pc' = [pc EXCEPT ![self] = "done"]
    /\ UNCHANGED <<links, network, map, queue, main_pc, neighbour_table, di, ni,
                   current_distance, new_distance, edited, pending>>

-----------------------------------------------------------------------------
(* update_table.  A frame holds the locals of a running update_table; the   *)
(* registry is read from the current state.  A pair reads the registry at  *)
(* line 174 and, when the test of line 187 passes, again at line 189: the  *)
(* frame is at "relax" before the first read and at "hop" before the       *)
(* second.                                                                 *)

Frame(self) ==
    [map |-> map[self], neighbour_table |-> neighbour_table[self],
     di |-> di[self], ni |-> ni[self],
     current_distance |-> current_distance[self],
     new_distance |-> new_distance[self],
     edited |-> edited[self], pc |-> pc[self]]

\* lines 165-170: the frame at the first pair of the loops
Enter(self, packet) ==
    [map |-> map[self], neighbour_table |-> packet.content,
     di |-> 1, ni |-> 1,
     current_distance |-> map[self][1].hop.best_distance,
     new_distance |-> 0,
     edited |-> FALSE, pc |-> "relax"]

destination(f) == f.map[f.di].dest

node(f) == f.neighbour_table[f.ni].dest

\* lines 174-176 raise KeyError: node is no key of the registry or of the
\* task's table, or destination is no key of node's published table
LookupFails(f) ==
    IF node(f) \notin DOMAIN network THEN TRUE
    ELSE IF ~Contains(f.map, node(f)) THEN TRUE
    ELSE ~Contains(network[node(f)], destination(f))

distance_to_midway(f) == distance_to(f.map, node(f))

midway_to_node(f) == distance_to(network[node(f)], destination(f))

\* the sum of line 179 without its second term
NewDistance_midway(f) == distance_to_midway(f)

\* line 179
NewDistance(f) == Plus(distance_to_midway(f), midway_to_node(f))

\* update_table without the test of line 183
Skipped_never(f) == FALSE

\* line 183: if not midway_to_node: continue
Skipped(f) == midway_to_node(f) = 0

\* line 187 with != for <
Shorter_or_longer(f) == NewDistance(f) # f.current_distance

\* line 187 with <= for <
Shorter_or_equal(f) == NewDistance(f) <= f.current_distance

\* line 187
Shorter(f) == NewDistance(f) < f.current_distance

\* line 189 raises KeyError: destination is no key of the registry, or the
\* midway node is no key of destination's published table
HopLookupFails(f) ==
    IF destination(f) \notin DOMAIN network THEN TRUE
    ELSE ~Contains(network[destination(f)], node(f))

\* lines 188-191
NewHop(f) == HopInfo(pass_through(network[destination(f)], node(f)), f.new_distance)

\* the loops advance: next node, else next destination (its distance is read
\* from the table as it is now), else the loops are over
Advance(f) ==
    IF f.ni < Len(f.neighbour_table)
        THEN [f EXCEPT !.ni = @ + 1]
    ELSE IF f.di < Len(f.map)
        THEN [f EXCEPT !.ni = 1, !.di = @ + 1,
                       !.current_distance = f.map[f.di + 1].hop.best_distance]
    ELSE [f EXCEPT !.pc = "publish"]

\* update_table with a failed lookup of lines 174-176 caught and the pair skipped
Pair_ignoring(f) ==
    IF LookupFails(f) THEN Advance(f)
    ELSE IF Skipped(f) THEN Advance(f)
    ELSE IF ~Shorter(f) THEN Advance(f)
    ELSE [f EXCEPT !.new_distance = NewDistance(f), !.pc = "hop"]

\* lines 172-187 for the pair (destination, node) of the frame.  A KeyError
\* leaves update_table and every frame below it: the task ends with the
\* exception stored in its future, which main never reads
Pair(f) ==
    IF LookupFails(f) THEN [f EXCEPT !.pc = "error"]
    ELSE IF Skipped(f) THEN Advance(f)
    ELSE IF ~Shorter(f) THEN Advance(f)
    ELSE [f EXCEPT !.new_distance = NewDistance(f), !.pc = "hop"]

\* lines 188-198 for the pair of the frame: the entry is replaced
Hop(f) ==
    IF HopLookupFails(f) THEN [f EXCEPT !.pc = "error"]
    ELSE Advance([f EXCEPT !.map = SetItem(f.map, destination(f), NewHop(f)),
                           !.edited = TRUE, !.new_distance = 0, !.pc = "relax"])

\* the next registry read of the frame and the lines that follow it
Step(f) == IF f.pc = "hop" THEN Hop(f) ELSE Pair(f)

\* the next registry read of the frame raises KeyError
Raises(f) == IF f.pc = "hop" THEN HopLookupFails(f) ELSE LookupFails(f)

(***************************************************************************)
(* Atomicity.  A registry read of the task's own entry reads nothing that  *)
(* another task writes: it is a local step.  Receiving a packet from a     *)
(* non-empty queue commutes with every put (puts append).  Local steps are *)
(* joined to the neighbouring step that reads a foreign registry entry, so *)
(* one step of the model is: local reads, one read of a foreign entry,     *)
(* local reads.                                                            *)
(***************************************************************************)
Local(self, f) ==
    \/ f.pc = "relax" /\ node(f) = self
    \/ f.pc = "hop" /\ destination(f) = self

\* the element of a set of one element; a frame bound to an element of a set
\* is computed once
The(S) == CHOOSE r \in S : TRUE

RECURSIVE RunLocal(_, _)
RunLocal(self, f) ==
    IF Local(self, f) THEN The({RunLocal(self, g) : g \in {Step(f)}}) ELSE f

Burst(self, f) ==
    The({IF g.pc \in {"relax", "hop"}
            THEN The({RunLocal(self, h) : h \in {Step(g)}})
            ELSE g : g \in {RunLocal(self, f)}})

\* the frames that Burst(self, f) goes through
RECURSIVE LocalFrames(_, _)
LocalFrames(self, f) ==
    IF Local(self, f) THEN {f} \cup LocalFrames(self, Step(f)) ELSE {}

BurstFrames(self, f) ==
    LET g == RunLocal(self, f) IN
    LocalFrames(self, f) \cup
        (IF g.pc \in {"relax", "hop"} THEN {g} \cup LocalFrames(self, Step(g)) ELSE {})

Assign(self, g) ==
    /\ map' = [map EXCEPT ![self] = g.map]
    /\ neighbour_table' = [neighbour_table EXCEPT ![self] = g.neighbour_table]
    /\ di' = [di EXCEPT ![self] = g.di]
    /\ ni' = [ni EXCEPT ![self] = g.ni]
    /\ current_distance' = [current_distance EXCEPT ![self] = g.current_distance]
    /\ new_distance' = [new_distance EXCEPT ![self] = g.new_distance]
    /\ edited' = [edited EXCEPT ![self] = g.edited]
    /\ pc' = [pc EXCEPT ![self] = g.pc]

\* a task that is run again when a packet arrives after its return
Receive_returned(self) ==
    /\ pc[self] \in {"wait", "done"}
    /\ queue[self] # <<>>
    /\ queue' = [queue EXCEPT ![self] = Tail(@)]
    /\ \E g \in {Burst(self, Enter(self, Head(queue[self])))} : Assign(self, g)
    /\ UNCHANGED <<links, network, main_pc, depth, pending>>

\* wait_for_packets, lines 132-135, and update_table up to its first reads
Receive(self) ==
    /\ pc[self] = "wait"
    /\ queue[self] # <<>>
    /\ queue' = [queue EXCEPT ![self] = Tail(@)]
    /\ \E g \in {Burst(self, Enter(self, Head(queue[self])))} : Assign(self, g)
    /\ UNCHANGED <<links, network, main_pc, depth, pending>>

\* update_table, lines 169-198: the next reads of the loops
Relax(self) ==
    /\ pc[self] \in {"relax", "hop"}
    /\ \E g \in {Burst(self, Frame(self))} : Assign(self, g)
    /\ UNCHANGED <<links, network, queue, main_pc, depth, pending>>

\* a publication that leaves the registry as it is
Published_nothing(self) == network

\* a publication under the key of the first node of the registry
Published_first(self) == [network EXCEPT ![links[1].name] = map[self]]

\* line 201: the registry after network[self.name] = proxy
Published(self) == [network EXCEPT ![self] = map[self]]

\* send_packets() whatever edited is
Resend_always(self) == TRUE

\* line 204: if edited
Resend(self) == edited[self]

\* lines 200-205: network[self.name] = proxy, then send_packets() if edited
Publish(self) ==
    /\ pc[self] = "publish"
    /\ network' = Published(self)
    /\ IF Resend(self)
         THEN /\ depth' = [depth EXCEPT ![self] = @ + 1]
              /\ BeginSend(self)
         ELSE /\ depth' = depth
              /\ pending' = pending
              /\ pc' = [pc EXCEPT ![self] = "wait"]
    /\ neighbour_table' = [neighbour_table EXCEPT ![self] = <<>>]
    /\ di' = [di EXCEPT ![self] = 1]
    /\ ni' = [ni EXCEPT ![self] = 1]
    /\ current_distance' = [current_distance EXCEPT ![self] = 0]
    /\ new_distance' = [new_distance EXCEPT ![self] = 0]
    /\ edited' = [edited EXCEPT ![self] = FALSE]
    /\ UNCHANGED <<links, map, queue, main_pc>>

-----------------------------------------------------------------------------

Worker(self) ==
    \/ Start(self)
    \/ Put(self)
    \/ ReturnEmpty(self)
    \/ Receive(self)
    \/ Relax(self)
    \/ Publish(self)

Next ==
    \/ Normalise
    \/ Submit
    \/ Join
    \/ \E self \in Names : Worker(self)

Spec == Init /\ [][Next]_vars

(***************************************************************************)
(* The executions in which one process of the pool runs every task: a task *)
(* is taken when no other task is under way.  They are executions of Spec  *)
(* (the pool is free to serve the tasks this way), few enough to be        *)
(* explored on networks of four nodes.                                     *)
(***************************************************************************)
InitWide == \E ls \in WideNetworks : InitFor(ls)

NextOneWorker ==
    \/ Normalise
    \/ Submit
    \/ Join
    \/ \E self \in Names : Running \subseteq {self} /\ Worker(self)

SpecOneWorker == InitWide /\ [][NextOneWorker]_vars

(***************************************************************************)
(* Fair scheduling: the processes keep running, so while main or a task    *)
(* can take a step, a step is taken.  (Fairness for main and for every     *)
(* process of the pool separately implies it: in a state that is repeated  *)
(* forever the process that can step there would be kept from running.)    *)
(***************************************************************************)
Fairness == WF_vars(Next)

SpecFair == Init /\ [][Next]_vars /\ Fairness

\* main up to the normalisation of the registry, over the pool's link data
InitNorm == \E ls \in PoolNetworks : InitFor(ls)

NextNorm == Normalise

SpecNorm == InitNorm /\ [][NextNorm]_vars

-----------------------------------------------------------------------------
(* Vocabulary of the properties.                                           *)

\* the table main built from the line of x
RawTable(x) == from_links(links[CHOOSE i \in 1..Len(links) : links[i].name = x])

NamesOf(ls) == {ls[i].name : i \in 1..Len(ls)}

HopsIn(ls, x) == ls[CHOOSE i \in 1..Len(ls) : ls[i].name = x].hops

\* the cost of the direct link x -> y in link data ls
LinkCostIn(ls, x, y) ==
    IF x = y THEN 0
    ELSE IF \E j \in 1..Len(HopsIn(ls, x)) : HopsIn(ls, x)[j].next_hop = y
        THEN _hop_from(y, HopsIn(ls, x)).best_distance
    ELSE Inf

LinkCostOf(x, y) == LinkCostIn(links, x, y)

Min(S) == CHOOSE a \in S : \A b \in S : a <= b

\* the least cost of a path from x to y that avoids the visited nodes
RECURSIVE PathCost(_, _, _, _)
PathCost(ls, x, y, visited) ==
    IF x = y THEN 0
    ELSE Min({Inf} \cup {Plus(LinkCostIn(ls, x, z), PathCost(ls, z, y, visited \cup {z})) :
                            z \in NamesOf(ls) \ visited})

\* the true shortest-path costs of every network of the model (costs are
\* never negative, so a shortest walk is a path)
ShortestCosts ==
    UNION { { <<ls, x, y, PathCost(ls, x, y, {x})>> : x \in NamesOf(ls), y \in NamesOf(ls) }
            : ls \in Networks \cup WideNetworks }

Shortest(x, y) == (CHOOSE t \in ShortestCosts : t[2] = x /\ t[3] = y /\ t[1] = links)[4]

\* the link data names only registered nodes (its costs are never negative here)
WellFormed ==
    \A i \in 1..Len(links) : \A j \in 1..Len(links[i].hops) :
        /\ links[i].hops[j].next_hop \in Names
        /\ links[i].hops[j].best_distance >= 0

NormalisationDone == main_pc > Len(links)

TasksSubmitted == main_pc > Len(links) + 1

AllReturned == TasksSubmitted /\ \A n \in Names : Returned(n)

\* the frames that the next step of the task of x goes through: every
\* registry read of update_table is Step(g) for a g of PendingFrames(x) in
\* the state before the step
PendingFrames(x) ==
    IF pc[x] \in {"relax", "hop"} THEN BurstFrames(x, Frame(x))
    ELSE IF pc[x] = "wait" /\ queue[x] # <<>>
        THEN BurstFrames(x, Enter(x, Head(queue[x])))
    ELSE {}

-----------------------------------------------------------------------------
(* C1: once every worker task has returned, every registry table records   *)
(* for every destination the true shortest-path cost of the link graph     *)
(* (infinite when unreachable).                                            *)
C1_ConvergenceOnCompletion ==
    (WellFormed /\ AllReturned) =>
        \A x \in Names : \A d \in Names :
            /\ distance_to(network[x], d) = Shortest(x, d)
            /\ distance_to(map[x], d) = Shortest(x, d)

(* C2: in the triangle A-B 1, B-C 1, A-C 5, once every worker has returned, *)
(* A's entry for C has cost 2 and next hop B.                              *)
C2_TriangleShortcut ==
    (links = Triangle(5) /\ AllReturned) =>
        /\ distance_to(network["A"], "C") = 2
        /\ pass_through(network["A"], "C") = "B"

\* the link data is fully connected with symmetric costs
SymmetricComplete ==
    /\ WellFormed
    /\ \A x \in Names : \A y \in Names \ {x} :
          /\ Contains(RawTable(x), y)
          /\ LinkCostOf(x, y) = LinkCostOf(y, x)

(* C3: for a fully connected network with symmetric link costs, once every *)
(* worker has returned, the cost x records for y equals the cost y records *)
(* for x, for every pair of nodes.                                         *)
C3_Symmetry ==
    (SymmetricComplete /\ AllReturned) =>
        \A x \in Names : \A y \in Names :
            distance_to(network[x], y) = distance_to(network[y], x)

(* C4: normalising a node adds, for every other registry node that is no   *)
(* destination of its table yet, an entry with that node as next hop and   *)
(* infinite cost, and leaves every entry already present as it was, in its *)
(* place.                                                                  *)
C4_NormalisationFrame ==
    [][Normalise =>
        LET name == links[main_pc].name
            old == network[name]
            new == network'[name]
        IN  /\ \A n \in Names \ {name} :
                  ~Contains(old, n) =>
                      /\ Contains(new, n)
                      /\ Get(new, n) = HopInfo(n, Inf)
            /\ Len(new) >= Len(old)
            /\ \A i \in 1..Len(old) : new[i] = old[i]
      ]_vars

\* the spec's example: registry {A,B,C,D}, A's raw table covers {A,B,C}, and
\* normalisation has added D:(D, inf)
C4_Witness ==
    /\ Names = {"A", "B", "C", "D"}
    /\ Keys(RawTable("A")) = {"A", "B", "C"}
    /\ main_pc = 2
    /\ Len(network["A"]) = 4
    /\ Get(network["A"], "D") = HopInfo("D", Inf)

\* one entry per registry node, no key twice, the self entry (x, 0), and no
\* other key when the link data names registered nodes only (wf)
Total(x, m, wf) ==
    /\ Names \subseteq Keys(m)
    /\ Cardinality(Keys(m)) = Len(m)
    /\ wf => Keys(m) \subseteq Names
    /\ Get(m, x) = HopInfo(x, 0)

(* C5: after normalisation every table (published or held by a task) has   *)
(* exactly one entry per node of the network, with the self entry at cost  *)
(* 0 through the node itself, and no step of a task adds, removes or       *)
(* reorders a destination.                                                 *)
C5_TableTotality ==
    /\ [](NormalisationDone =>
            LET wf == WellFormed IN
            \A x \in Names :
                /\ Total(x, network[x], wf)
                /\ TasksSubmitted => Total(x, map[x], wf))
    /\ [][\A x \in Names :
            /\ (NormalisationDone /\ network'[x] # network[x]) =>
                  KeyList(network'[x]) = KeyList(network[x])
            /\ (TasksSubmitted /\ map'[x] # map[x]) =>
                  KeyList(map'[x]) = KeyList(map[x])]_vars

\* a task has relaxed and changed a table that normalisation had extended
C5_Witness ==
    \E x \in Names :
        /\ pc[x] = "publish"
        /\ edited[x]
        /\ Keys(RawTable(x)) # Keys(map[x])

\* the packets of sender x waiting in the queue of y
SentBy(x, y) == Cardinality({i \in 1..Len(queue[y]) : queue[y][i].header = x})

\* every task's table and every registry entry hold the shortest-path costs
AllShortest ==
    /\ TasksSubmitted
    /\ \A x \in Names : \A d \in Names :
          /\ distance_to(map[x], d) = Shortest(x, d)
          /\ distance_to(network[x], d) = Shortest(x, d)

\* a step that changes no table and no registry entry, sets no edited flag,
\* starts no broadcast from update_table, and puts a packet only for a
\* broadcast that was already under way
C6_QuietStep ==
    /\ map' = map
    /\ network' = network
    /\ \A x \in Names :
          pc[x] \in {"wait", "relax", "hop", "publish"} =>
              /\ ~edited'[x]
              /\ pc'[x] # "send"
              /\ pending'[x] = pending[x]
    /\ \A y \in Names :
          Len(queue'[y]) > Len(queue[y]) =>
              \E x \in Names : pc[x] = "send" /\ Head(pending[x]) = y

(* C6: when every table and registry entry holds the shortest-path costs,  *)
(* no pair of an update_table run on any node with a received snapshot     *)
(* changes an entry, edited stays false for every destination, and no step *)
(* changes a table or the registry or starts a broadcast: a packet is put  *)
(* only by a broadcast that was already under way.                         *)
C6_FixedPoint ==
    /\ [](AllShortest =>
            \A x \in Names :
                /\ \A g \in PendingFrames(x) :
                      g.pc = "relax" /\ Pair(g).pc # "hop" /\ Pair(g).map = g.map
                /\ ~edited[x])
    /\ [][~C6_QuietStep => ~AllShortest]_vars

\* the fixed point is reached and a task is relaxing a packet
C6_Witness ==
    /\ AllShortest
    /\ \E x \in Names : \E d \in Names : LinkCostOf(x, d) # Shortest(x, d)
    /\ \E x \in Names : pc[x] = "relax" /\ di[x] > 1

(* C7: a pair (node, destination) for which the registry cost of node to   *)
(* destination is 0 (node = destination in particular) changes neither the *)
(* cost nor the next hop of any entry of the table and does not set        *)
(* edited.                                                                 *)
C7_SelfLoopGuard ==
    \A x \in Names : \A g \in PendingFrames(x) :
        (g.pc = "relax" /\ ~LookupFails(g) /\ midway_to_node(g) = 0) =>
            Pair(g) = Advance(g)

\* a pair through the destination itself whose sum is below current_distance:
\* only the guard keeps the entry
C7_Witness ==
    \E x \in Names : \E g \in PendingFrames(x) :
        /\ g.pc = "relax"
        /\ ~LookupFails(g)
        /\ node(g) = destination(g)
        /\ midway_to_node(g) = 0
        /\ NewDistance(g) < g.current_distance

(* C9: when the link data names registered nodes only and no negative      *)
(* cost, every hop record of every table has a cost that is infinite or    *)
(* finite and non-negative, and a next hop that is a registry node, the    *)
(* owner itself for the self entry.                                        *)
C9_HopRecordValidity ==
    WellFormed =>
        \A x \in Names : \A m \in {network[x], map[x]} : \A i \in 1..Len(m) :
            /\ m[i].hop.best_distance \in 0..Inf
            /\ m[i].hop.next_hop \in Names
            /\ m[i].dest = x => m[i].hop.next_hop = x

\* a relaxed entry: the next hop differs from the destination
C9_Witness ==
    /\ WellFormed
    /\ \E x \in Names : \E i \in 1..Len(network[x]) :
          /\ network[x][i].hop.next_hop # network[x][i].dest
          /\ network[x][i].hop.best_distance < Inf

(* C10: a pair whose lookup names a node absent from the registry or from  *)
(* a table ends the task in the error state with its table as it was; the  *)
(* failing step publishes and sends nothing, and a task in the error state *)
(* stays there: it takes nothing from its queue, publishes nothing and     *)
(* sends nothing.                                                          *)
C10_UnknownDestinationAborts ==
    /\ [](\A x \in Names : \A g \in PendingFrames(x) :
            Raises(g) => (Step(g).pc = "error" /\ Step(g).map = g.map))
    /\ [][\A x \in Names :
            /\ (pc[x] # "error" /\ pc'[x] = "error") =>
                  /\ \E g \in PendingFrames(x) : Raises(g)
                  /\ network' = network
                  /\ \A y \in Names \ {x} : queue'[y] = queue[y]
            /\ pc[x] = "error" =>
                  /\ pc'[x] = "error"
                  /\ map'[x] = map[x]
                  /\ network'[x] = network[x]
                  /\ Len(queue'[x]) >= Len(queue[x])
                  /\ \A y \in Names : SentBy(x, y)' <= SentBy(x, y)]_vars

\* a task has ended in the error state with packets left in its queue
C10_Witness ==
    \E x \in Names : pc[x] = "error" /\ queue[x] # <<>>

\* main has left the executor's with block
Joined == main_pc = Len(links) + 3

(* C11: under fair scheduling every task eventually returns and main's join *)
(* of the tasks completes.                                                 *)
C11_Termination == <>[](Joined /\ \A x \in Names : Returned(x))

\* main has joined the tasks of a run in which a task changed its table, so
\* that it announced it again
C11_Witness ==
    /\ Joined
    /\ \E x \in Names : pc[x] = "done" /\ map[x] # normalised(x, RawTable(x))

\* the position of destination d in the table m
IndexOf(m, d) == CHOOSE i \in 1..Len(m) : m[i].dest = d

\* the distance to the midway node n that update_table of x has read for the
\* pair (d, n) when its loops are over: the entries of the destinations
\* before d are as the call leaves them, the others as it found them (the
\* registry entry of x is the table the call started with)
ToVia(x, d, n) ==
    IF IndexOf(map[x], n) < IndexOf(map[x], d)
        THEN distance_to(map[x], n)
        ELSE distance_to(network[x], n)

\* the sums of the pairs of destination d that line 183 does not skip
Candidates(x, d) ==
    {Plus(ToVia(x, d, n), distance_to(network[n], d)) :
        n \in {k \in Keys(neighbour_table[x]) : distance_to(network[k], d) # 0}}

(* C12: when the loops of update_table are over, the cost recorded for each *)
(* destination is the minimum of the cost before the call and of the sums  *)
(* of its pairs that are not skipped, and no step of the call raises a     *)
(* recorded cost (the tasks run one at a time here, so the registry        *)
(* entries a call reads do not change during the call).                    *)
C12_RelaxMinimum ==
    /\ [](\A x \in Names : pc[x] = "publish" =>
            \A d \in Keys(map[x]) :
                distance_to(map[x], d) =
                    Min({distance_to(network[x], d)} \cup Candidates(x, d)))
    /\ [][\A x \in Names : pc[x] \in {"wait", "relax", "hop"} =>
            \A i \in 1..Len(map[x]) :
                map'[x][i].hop.best_distance <= map[x][i].hop.best_distance]_vars

Range(q) == {q[i] : i \in 1..Len(q)}

(* C14: a broadcast of x starts with every other node of the registry to   *)
(* serve, each once and x not among them; each of its steps appends one    *)
(* packet with the name and the table of x to the queue of the next node   *)
(* to serve and touches no other queue, no table and no registry entry;    *)
(* the table of x stays as it is during the broadcast, which ends when     *)
(* every node has been served.                                             *)
C14_BroadcastDelivery ==
    /\ [](\A x \in Names : pc[x] = "send" =>
            /\ pending[x] # <<>>
            /\ Range(pending[x]) \subseteq Names \ {x}
            /\ Cardinality(Range(pending[x])) = Len(pending[x]))
    /\ [][\A x \in Names :
            /\ (pc[x] # "send" /\ pc'[x] = "send") =>
                  /\ Range(pending'[x]) = Names \ {x}
                  /\ queue' = queue
                  /\ map' = map
            /\ (pc[x] = "send" /\ pending'[x] # pending[x]) =>
                  /\ queue' = [queue EXCEPT ![Head(pending[x])] =
                                  Append(@, [header |-> x, content |-> map[x]])]
                  /\ pending'[x] = Tail(pending[x])
                  /\ pc'[x] = IF pending'[x] = <<>> THEN "wait" ELSE "send"
                  /\ map' = map
                  /\ network' = network
            /\ pc[x] = "send" => map'[x] = map[x]]_vars

\* x has served every other node, one of which it reaches at infinite cost
\* only, and no packet has been taken yet
C14_Witness ==
    \E x \in Names :
        /\ pc[x] = "wait"
        /\ queue[x] = <<>>
        /\ \A y \in Names \ {x} : SentBy(x, y) = 1
        /\ \E y \in Names \ {x} : distance_to(map[x], y) = Inf

(* C15: while update_table runs, edited is set exactly when the table      *)
(* differs from the one the call started with (the registry entry of the   *)
(* node); when the call ends the node starts a broadcast to every other    *)
(* node if the table has changed, and otherwise goes back to its queue     *)
(* with nothing to send; a queue grows only by a put of a node that is     *)
(* broadcasting.                                                           *)
C15_RebroadcastIffEdited ==
    /\ [](\A x \in Names : pc[x] \in {"relax", "hop", "publish"} =>
            (edited[x] <=> map[x] # network[x]))
    /\ [][/\ \A x \in Names : (pc[x] = "publish" /\ pc'[x] # "publish") =>
                IF map[x] # network[x]
                    THEN /\ pc'[x] = "send"
                         /\ Range(pending'[x]) = Names \ {x}
                         /\ depth'[x] = depth[x] + 1
                    ELSE /\ pc'[x] = "wait"
                         /\ pending'[x] = <<>>
                         /\ depth'[x] = depth[x]
                         /\ queue' = queue
        /\ \A y \in Names : Len(queue'[y]) > Len(queue[y]) =>
                \E x \in Names \ {y} : pc[x] = "send"]_vars

\* a node that has announced a change before ends an update_table that has
\* changed nothing
C15_Witness ==
    \E x \in Names : pc[x] = "publish" /\ ~edited[x] /\ depth[x] > 0

TaskState(x) == <<pc[x], depth[x], di[x], ni[x], pending[x]>>

(* C17: a step of the task of x changes neither the table nor the registry *)
(* entry of another node; the table of x changes only in a step of the     *)
(* update_table of x, and the registry entry of x only when x publishes,   *)
(* to the table of x.                                                      *)
C17_SingleWriter ==
    [][TasksSubmitted => \A x \in Names :
        /\ TaskState(x)' # TaskState(x) =>
              \A y \in Names \ {x} : map'[y] = map[y] /\ network'[y] = network[y]
        /\ (map'[x] # map[x] \/ network'[x] # network[x]) =>
              TaskState(x)' # TaskState(x)
        /\ map'[x] # map[x] => pc[x] \in {"wait", "relax", "hop"}
        /\ network'[x] # network[x] => (pc[x] = "publish" /\ network'[x] = map[x])]_vars

\* x has published a changed table and y is about to publish one
C17_Witness ==
    \E x \in Names : \E y \in Names \ {x} :
        /\ network[x] # normalised(x, RawTable(x))
        /\ pc[x] \in {"send", "wait", "relax", "hop"}
        /\ pc[y] = "publish"
        /\ edited[y]

\* the costs of the walks from x to y of at most k links in link data ls
RECURSIVE WalkCostsIn(_, _, _, _)
WalkCostsIn(ls, x, y, k) ==
    IF k = 0 THEN (IF x = y THEN {0} ELSE {})
    ELSE WalkCostsIn(ls, x, y, k - 1) \cup
         UNION { {LinkCostIn(ls, x, z) + w : w \in WalkCostsIn(ls, z, y, k - 1)} :
                    z \in {n \in NamesOf(ls) \ {x} : LinkCostIn(ls, x, n) < Inf} }

\* no table of the model holds a cost above MaxCost + 1, and outside ZeroLink
\* every link costs 1 at least: longer walks cost more
MaxWalk == MaxCost + 1

WalkCostTable ==
    UNION { { <<ls, x, y, WalkCostsIn(ls, x, y, MaxWalk)>> :
                x \in NamesOf(ls), y \in NamesOf(ls) }
            : ls \in Networks \cup WideNetworks }

WalkCosts(x, y) == (CHOOSE t \in WalkCostTable : t[2] = x /\ t[3] = y /\ t[1] = links)[4]

\* the cost is no less than the shortest-path cost and, if finite, the cost
\* of a walk of the link graph
Sound(x, d, c) ==
    /\ c >= Shortest(x, d)
    /\ c < Inf => c \in WalkCosts(x, d)

(* C18: every cost recorded for a destination d in the table or the        *)
(* registry entry of a node x is at least the shortest-path cost from x to *)
(* d in the link graph, and a finite one is the cost of a walk from x to d. *)
C18_NoUnderestimate ==
    \A x \in Names : \A d \in Names :
        /\ NormalisationDone => Sound(x, d, distance_to(network[x], d))
        /\ TasksSubmitted => Sound(x, d, distance_to(map[x], d))

\* a relaxed cost: below the cost of the direct link, and the shortest
C18_Witness ==
    \E x \in Names : \E d \in Names :
        /\ TasksSubmitted
        /\ distance_to(network[x], d) < LinkCostOf(x, d)
        /\ distance_to(network[x], d) = Shortest(x, d)

(* C19: no step raises a cost of a registry entry, and when the loops of   *)
(* update_table are over every cost of the table is at most the cost the   *)
(* call started with (the registry entry of the node).                     *)
C19_MonotoneCosts ==
    /\ [](\A x \in Names : pc[x] = "publish" =>
            \A i \in 1..Len(map[x]) :
                map[x][i].hop.best_distance <= network[x][i].hop.best_distance)
    /\ [][NormalisationDone => \A x \in Names : \A i \in 1..Len(network[x]) :
            network'[x][i].hop.best_distance <= network[x][i].hop.best_distance]_vars

\* a node has published a cost below the one it started with
C19_Witness ==
    \E x \in Names : \E d \in Names :
        /\ TasksSubmitted
        /\ pc[x] \in {"send", "wait", "done"}
        /\ distance_to(network[x], d) < distance_to(normalised(x, RawTable(x)), d)

\* the hop record leads to d at finite cost through d itself or through a
\* node that x has a link to
UsableHop(x, d, hop) ==
    hop.best_distance < Inf =>
        \/ hop.next_hop = d
        \/ hop.next_hop # x /\ LinkCostOf(x, hop.next_hop) < Inf

(* C20: in every table and registry entry, the next hop recorded by x for  *)
(* a destination d other than x at finite cost is d itself or a node to    *)
(* which the link data gives x a direct link.                              *)
C20_UsableNextHop ==
    \A x \in Names : \A d \in Names \ {x} :
        /\ NormalisationDone => UsableHop(x, d, Get(network[x], d))
        /\ TasksSubmitted => UsableHop(x, d, Get(map[x], d))

(* C8: a pair replaces the entry for its destination only when its sum is  *)
(* strictly less than the cost the table holds for the destination; a sum  *)
(* equal to that cost changes neither next hop nor cost and does not set   *)
(* edited.                                                                 *)
C8_StrictTieBreak ==
    \A x \in Names : \A g \in PendingFrames(x) :
        /\ g.pc = "hop" => g.new_distance < distance_to(g.map, destination(g))
        /\ (g.pc = "relax" /\ ~LookupFails(g)) =>
              /\ Pair(g).pc = "hop" =>
                    NewDistance(g) < distance_to(g.map, destination(g))
              /\ NewDistance(g) = distance_to(g.map, destination(g)) =>
                    Pair(g) = Advance(g)

====
